---- MODULE Spec2Model ----
(***************************************************************************)
(* Model of lib/provisioning/account.js: the request builders of the       *)
(* account provisioning API.  Every exported function shapes its arguments *)
(* into (method, uri, params), possibly annotates the options mapping, and *)
(* delegates to call_account_api.  The state is what a caller and a mock   *)
(* transport can observe: the caller's own options object, which it may    *)
(* pass to any number of calls, and the record of the last call.           *)
(***************************************************************************)
EXTENDS Integers, Sequences, FiniteSets, TLC

VARIABLES
  opts0,   \* the caller's options object as the caller built it
  opts,    \* the same object now (the functions receive it by reference)
  last     \* the last call: its arguments and what reached the transport

vars == <<opts0, opts, last>>

----------------------------------------------------------------------------
(* JavaScript values.  Every value is a tagged tuple of strings, so that   *)
(* undefined, null, scalars and lists are all distinct and comparable.     *)

Undefined == <<"undefined">>
Str(s)    == <<"string", s>>
Num(s)    == <<"number", s>>
Bool(s)   == <<"boolean", s>>
Arr(s)    == <<"array">> \o s
Obj(s)    == <<"object">> \o s
Fn(s)     == <<"function", s>>

(* A mapping (a plain object) is a function from the set of its own keys   *)
(* to values; a key may be present with the value undefined.               *)
EmptyMap == [k \in {} |-> Undefined]

\* o[k] of JavaScript: undefined when the key is absent
Get(o, k) == IF k \in DOMAIN o THEN o[k] ELSE Undefined

\* o[k] = v of JavaScript
Put(o, k, v) == [x \in DOMAIN o \cup {k} |-> IF x = k THEN v ELSE o[x]]

----------------------------------------------------------------------------
(* Bounds and input domains.  Option values and optional arguments are     *)
(* either left out or set to a value; null is considered for the options   *)
(* argument as a whole.                                                    *)

\* the largest number of keys the caller puts in its options object
MaxOptKeys == 2

Ids == {Str("acct1"), Str("acct2")}

\* what a caller may pass where an identifier is expected
IdArgs == Ids \cup {Undefined}

OptKeys == {"content_type", "page_size", "page", "sort_by", "sort_order",
            "name", "enabled", "timeout"}

OptionValues(k) ==
  CASE k = "content_type" -> {Str("form")}
    [] k = "page_size"    -> {Num("10")}
    [] k = "page"         -> {Num("2")}
    [] k = "sort_by"      -> {Str("name")}
    [] k = "sort_order"   -> {Str("asc")}
    [] k = "name"         -> {Str("key1")}
    [] k = "enabled"      -> {Bool("true")}
    [] k = "timeout"      -> {Num("60")}

AllOptionValues == UNION {OptionValues(k) : k \in OptKeys}

\* the options objects a caller may build
CallerOptions ==
  UNION {{o \in [S -> AllOptionValues] : \A k \in S : o[k] \in OptionValues(k)}
         : S \in {T \in SUBSET OptKeys : Cardinality(T) <= MaxOptKeys}}

\* how the options argument is passed: left out, null, or the caller's object
OptArgs == {"omitted", "null", "caller"}

\* the completion handler: left out, or a function
Callbacks == {Undefined, Fn("cb")}

Opt(v) == {Undefined, v}

----------------------------------------------------------------------------
(* The options parameter of a call.  `options = {}` in a parameter list    *)
(* gives a new empty object when the argument is undefined, and only then: *)
(* null stays null, and the caller's object is received by reference.      *)

DefaultParam(v, d) == IF v = Undefined THEN d ELSE v

Resolve(options, heap) ==
  CASE options = "omitted" -> [kind |-> "mapping", ref |-> "fresh",  map |-> EmptyMap]
    [] options = "null"    -> [kind |-> "null",    ref |-> "none",   map |-> EmptyMap]
    [] options = "caller"  -> [kind |-> "mapping", ref |-> "caller", map |-> heap]

\* options.k = v, on an options value that is a mapping
Assign(o, k, v) == [o EXCEPT !.map = Put(o.map, k, v)]

\* reading or writing a property of null raises a TypeError in the function
Thrown ==
  [outcome |-> "threw", method |-> "", uri |-> <<>>, params |-> EmptyMap,
   callback |-> Undefined, optKind |-> "null", optRef |-> "none",
   options |-> EmptyMap, delegated |-> 0, transport |-> Undefined,
   ret |-> <<"TypeError">>]

\* utils.pickOnlyExistingValues: the named keys of the source whose value is set
pickOnlyExistingValues(source, keys) ==
  [k \in {x \in keys : Get(source, x) # Undefined} |-> source[k]]

\* what the transport gives back for a request
TransportResult(method, uri) == <<"response", method>>

\* api_client/call_account_api: the collaborator every function delegates to.
\* It receives the descriptor; the function returns what it returns.
call_account_api(method, uri, params, callback, o) ==
  [outcome |-> "forwarded", method |-> method, uri |-> uri, params |-> params,
   callback |-> callback, optKind |-> o.kind, optRef |-> o.ref,
   options |-> o.map, delegated |-> 1,
   transport |-> TransportResult(method, uri),
   ret |-> TransportResult(method, uri)]

----------------------------------------------------------------------------
(* The exported functions.  The last parameter, heap, is the content of    *)
(* the caller's options object when the call starts.                       *)

\* sub_accounts without the default of ids: an omitted ids stays undefined
sub_accounts_no_default(enabled, ids, prefix, options, callback, heap) ==
  LET o == Resolve(options, heap)
      params == [enabled |-> enabled, ids |-> ids, prefix |-> prefix]
      uri == <<Str("sub_accounts")>>
  IN  call_account_api("GET", uri, params, callback, o)

sub_accounts(enabled, ids, prefix, options, callback, heap) ==
  LET o == Resolve(options, heap)
      params == [enabled |-> enabled,
                 ids     |-> DefaultParam(ids, Arr(<<>>)),
                 prefix  |-> prefix]
      uri == <<Str("sub_accounts")>>
  IN  call_account_api("GET", uri, params, callback, o)

sub_account(sub_account_id, options, callback, heap) ==
  LET o == Resolve(options, heap)
      uri == <<Str("sub_accounts"), sub_account_id>>
  IN  call_account_api("GET", uri, EmptyMap, callback, o)

\* create_sub_account forwarding a new {content_type: "json"} in place of the
\* options it received
create_sub_account_new_options(name, cloud_name, custom_attributes, enabled, base_account, options, callback, heap) ==
  LET o == Resolve(options, heap)
      params == [cloud_name          |-> cloud_name,
                 name                |-> name,
                 custom_attributes   |-> custom_attributes,
                 enabled             |-> enabled,
                 base_sub_account_id |-> base_account]
      uri == <<Str("sub_accounts")>>
  IN  IF o.kind = "null" THEN Thrown
      ELSE call_account_api("POST", uri, params, callback,
                            Assign(Resolve("omitted", heap), "content_type", Str("json")))

create_sub_account(name, cloud_name, custom_attributes, enabled, base_account, options, callback, heap) ==
  LET o == Resolve(options, heap)
      params == [cloud_name          |-> cloud_name,
                 name                |-> name,
                 custom_attributes   |-> custom_attributes,
                 enabled             |-> enabled,
                 base_sub_account_id |-> base_account]
      uri == <<Str("sub_accounts")>>
  IN  IF o.kind = "null" THEN Thrown
      ELSE call_account_api("POST", uri, params, callback,
                            Assign(o, "content_type", Str("json")))

delete_sub_account(sub_account_id, options, callback, heap) ==
  LET o == Resolve(options, heap)
      uri == <<Str("sub_accounts"), sub_account_id>>
  IN  call_account_api("DELETE", uri, EmptyMap, callback, o)

update_sub_account(sub_account_id, name, cloud_name, custom_attributes, enabled, options, callback, heap) ==
  LET o == Resolve(options, heap)
      params == [cloud_name        |-> cloud_name,
                 name              |-> name,
                 custom_attributes |-> custom_attributes,
                 enabled           |-> enabled]
      uri == <<Str("sub_accounts"), sub_account_id>>
  IN  IF o.kind = "null" THEN Thrown
      ELSE call_account_api("PUT", uri, params, callback,
                            Assign(o, "content_type", Str("json")))

user(user_id, options, callback, heap) ==
  LET o == Resolve(options, heap)
      uri == <<Str("users"), user_id>>
  IN  call_account_api("GET", uri, EmptyMap, callback, o)

users(pending, user_ids, prefix, sub_account_id, options, callback, heap) ==
  LET o == Resolve(options, heap)
      uri == <<Str("users")>>
      params == [ids            |-> user_ids,
                 pending        |-> pending,
                 prefix         |-> prefix,
                 sub_account_id |-> sub_account_id]
  IN  call_account_api("GET", uri,
        pickOnlyExistingValues(params, {"ids", "pending", "prefix", "sub_account_id"}),
        callback, o)

create_user(name, email, role, sub_account_ids, options, callback, heap) ==
  LET o == Resolve(options, heap)
      uri == <<Str("users")>>
      params == [name            |-> name,
                 email           |-> email,
                 role            |-> role,
                 sub_account_ids |-> sub_account_ids]
  IN  IF o.kind = "null" THEN Thrown
      ELSE call_account_api("POST", uri, params, callback,
                            Assign(o, "content_type", Str("json")))

update_user(user_id, name, email, role, sub_account_ids, options, callback, heap) ==
  LET o == Resolve(options, heap)
      uri == <<Str("users"), user_id>>
      params == [name            |-> name,
                 email           |-> email,
                 role            |-> role,
                 sub_account_ids |-> sub_account_ids]
  IN  IF o.kind = "null" THEN Thrown
      ELSE call_account_api("PUT", uri, params, callback,
                            Assign(o, "content_type", Str("json")))

delete_user(user_id, options, callback, heap) ==
  LET o == Resolve(options, heap)
      uri == <<Str("users"), user_id>>
  IN  call_account_api("DELETE", uri, EmptyMap, callback, o)

create_user_group(name, options, callback, heap) ==
  LET o == Resolve(options, heap)
      uri == <<Str("user_groups")>>
      params == [name |-> name]
  IN  IF o.kind = "null" THEN Thrown
      ELSE call_account_api("POST", uri, params, callback,
                            Assign(o, "content_type", Str("json")))

update_user_group(group_id, name, options, callback, heap) ==
  LET o == Resolve(options, heap)
      uri == <<Str("user_groups"), group_id>>
      params == [name |-> name]
  IN  call_account_api("PUT", uri, params, callback, o)

delete_user_group(group_id, options, callback, heap) ==
  LET o == Resolve(options, heap)
      uri == <<Str("user_groups"), group_id>>
  IN  call_account_api("DELETE", uri, EmptyMap, callback, o)

\* add_user_to_group with the two identifiers in each other's place
add_user_to_group_swapped(group_id, user_id, options, callback, heap) ==
  LET o == Resolve(options, heap)
      uri == <<Str("user_groups"), user_id, Str("users"), group_id>>
  IN  call_account_api("POST", uri, EmptyMap, callback, o)

add_user_to_group(group_id, user_id, options, callback, heap) ==
  LET o == Resolve(options, heap)
      uri == <<Str("user_groups"), group_id, Str("users"), user_id>>
  IN  call_account_api("POST", uri, EmptyMap, callback, o)

remove_user_from_group(group_id, user_id, options, callback, heap) ==
  LET o == Resolve(options, heap)
      uri == <<Str("user_groups"), group_id, Str("users"), user_id>>
  IN  call_account_api("DELETE", uri, EmptyMap, callback, o)

user_group(group_id, options, callback, heap) ==
  LET o == Resolve(options, heap)
      uri == <<Str("user_groups"), group_id>>
  IN  call_account_api("GET", uri, EmptyMap, callback, o)

user_groups(options, callback, heap) ==
  LET o == Resolve(options, heap)
      uri == <<Str("user_groups")>>
  IN  call_account_api("GET", uri, EmptyMap, callback, o)

user_group_users(group_id, options, callback, heap) ==
  LET o == Resolve(options, heap)
      uri == <<Str("user_groups"), group_id, Str("users")>>
  IN  call_account_api("GET", uri, EmptyMap, callback, o)

\* access_keys sending the whole options mapping as params
access_keys_all_options(sub_account_id, options, callback, heap) ==
  LET o == Resolve(options, heap)
      uri == <<Str("sub_accounts"), sub_account_id, Str("access_keys")>>
  IN  IF o.kind = "null" THEN Thrown
      ELSE call_account_api("GET", uri, o.map, callback, o)

access_keys(sub_account_id, options, callback, heap) ==
  LET o == Resolve(options, heap)
      params == pickOnlyExistingValues(
                  [page_size  |-> Get(o.map, "page_size"),
                   page       |-> Get(o.map, "page"),
                   sort_by    |-> Get(o.map, "sort_by"),
                   sort_order |-> Get(o.map, "sort_order")],
                  {"page_size", "page", "sort_by", "sort_order"})
      uri == <<Str("sub_accounts"), sub_account_id, Str("access_keys")>>
  IN  IF o.kind = "null" THEN Thrown
      ELSE call_account_api("GET", uri, params, callback, o)

generate_access_key(sub_account_id, options, callback, heap) ==
  LET o == Resolve(options, heap)
      params == pickOnlyExistingValues(
                  [name    |-> Get(o.map, "name"),
                   enabled |-> Get(o.map, "enabled")],
                  {"name", "enabled"})
      uri == <<Str("sub_accounts"), sub_account_id, Str("access_keys")>>
  IN  IF o.kind = "null" THEN Thrown
      ELSE call_account_api("POST", uri, params, callback,
                            Assign(o, "content_type", Str("json")))

update_access_key(sub_account_id, api_key, options, callback, heap) ==
  LET o == Resolve(options, heap)
      params == pickOnlyExistingValues(
                  [name    |-> Get(o.map, "name"),
                   enabled |-> Get(o.map, "enabled")],
                  {"name", "enabled"})
      uri == <<Str("sub_accounts"), sub_account_id, Str("access_keys"), api_key>>
  IN  IF o.kind = "null" THEN Thrown
      ELSE call_account_api("PUT", uri, params, callback,
                            Assign(o, "content_type", Str("json")))

delete_access_key(sub_account_id, api_key, options, callback, heap) ==
  LET o == Resolve(options, heap)
      uri == <<Str("sub_accounts"), sub_account_id, Str("access_keys"), api_key>>
  IN  call_account_api("DELETE", uri, EmptyMap, callback, o)

\* delete_access_key_by_name annotating the options like generate_access_key
delete_access_key_by_name_json(sub_account_id, options, callback, heap) ==
  LET o == Resolve(options, heap)
      params == [name |-> Get(o.map, "name")]
      uri == <<Str("sub_accounts"), sub_account_id, Str("access_keys")>>
  IN  IF o.kind = "null" THEN Thrown
      ELSE call_account_api("DELETE", uri, params, callback,
                            Assign(o, "content_type", Str("json")))

delete_access_key_by_name(sub_account_id, options, callback, heap) ==
  LET o == Resolve(options, heap)
      params == [name |-> Get(o.map, "name")]
      uri == <<Str("sub_accounts"), sub_account_id, Str("access_keys")>>
  IN  IF o.kind = "null" THEN Thrown
      ELSE call_account_api("DELETE", uri, params, callback, o)

----------------------------------------------------------------------------
(* The calls.  Every function is one synchronous call: it starts when no   *)
(* other call is running, hands one descriptor to the transport, and its   *)
(* descriptor is dropped when it returns.  A call records what it was      *)
(* given and what came of it, and leaves the caller's object as the        *)
(* function left it: the object forwarded is the object received.          *)

NoCall ==
  [op |-> "none", args |-> <<>>, optArg |-> "omitted", optionsIn |-> EmptyMap,
   outcome |-> "none", method |-> "", uri |-> <<>>, params |-> EmptyMap,
   callback |-> Undefined, optKind |-> "null", optRef |-> "none",
   options |-> EmptyMap, delegated |-> 0, transport |-> Undefined,
   ret |-> Undefined]

Observed(op, args, options, r) ==
  [op |-> op, args |-> args, optArg |-> options,
   optionsIn |-> Resolve(options, opts).map,
   outcome |-> r.outcome, method |-> r.method, uri |-> r.uri,
   params |-> r.params, callback |-> r.callback, optKind |-> r.optKind,
   optRef |-> r.optRef, options |-> r.options, delegated |-> r.delegated,
   transport |-> r.transport, ret |-> r.ret]

Call(op, args, options, r) ==
  /\ last = NoCall
  /\ last' = Observed(op, args, options, r)
  /\ opts' = IF r.outcome = "forwarded" /\ r.optRef = "caller" THEN r.options ELSE opts
  /\ UNCHANGED opts0

Init ==
  /\ opts0 \in CallerOptions
  /\ opts = opts0
  /\ last = NoCall

Names     == {Str("n1")}
IdLists   == {Arr(<<>>), Arr(<<"acct1">>)}
Roles     == {Str("admin")}
Emails    == {Str("u@example.com")}

Do_sub_accounts ==
  \E enabled \in Opt(Bool("true")), ids \in {Undefined} \cup IdLists,
     prefix \in Opt(Str("foo")), options \in OptArgs, callback \in Callbacks :
    Call("sub_accounts", <<enabled, ids, prefix>>, options,
         sub_accounts(enabled, ids, prefix, options, callback, opts))

Do_sub_account ==
  \E id \in IdArgs, options \in OptArgs, callback \in Callbacks :
    Call("sub_account", <<id>>, options, sub_account(id, options, callback, opts))

Do_create_sub_account ==
  \E name \in Names, cloud_name \in Names, custom_attributes \in Opt(Obj(<<"k", "v">>)),
     enabled \in Opt(Bool("true")), base_account \in Opt(Str("acct1")),
     options \in OptArgs, callback \in Callbacks :
    Call("create_sub_account",
         <<name, cloud_name, custom_attributes, enabled, base_account>>, options,
         create_sub_account(name, cloud_name, custom_attributes, enabled,
                            base_account, options, callback, opts))

Do_delete_sub_account ==
  \E id \in IdArgs, options \in OptArgs, callback \in Callbacks :
    Call("delete_sub_account", <<id>>, options,
         delete_sub_account(id, options, callback, opts))

Do_update_sub_account ==
  \E id \in IdArgs, name \in Opt(Str("n1")), cloud_name \in Opt(Str("n1")),
     custom_attributes \in Opt(Obj(<<"k", "v">>)), enabled \in Opt(Bool("true")),
     options \in OptArgs, callback \in Callbacks :
    Call("update_sub_account", <<id, name, cloud_name, custom_attributes, enabled>>,
         options,
         update_sub_account(id, name, cloud_name, custom_attributes, enabled,
                            options, callback, opts))

Do_user ==
  \E id \in IdArgs, options \in OptArgs, callback \in Callbacks :
    Call("user", <<id>>, options, user(id, options, callback, opts))

Do_users ==
  \E pending \in Opt(Bool("true")), user_ids \in Opt(Arr(<<"acct1">>)),
     prefix \in Opt(Str("foo")), sub_account_id \in Opt(Str("acct1")),
     options \in OptArgs, callback \in Callbacks :
    Call("users", <<pending, user_ids, prefix, sub_account_id>>, options,
         users(pending, user_ids, prefix, sub_account_id, options, callback, opts))

Do_create_user ==
  \E name \in Names, email \in Emails, role \in Roles,
     sub_account_ids \in Opt(Arr(<<"acct1">>)),
     options \in OptArgs, callback \in Callbacks :
    Call("create_user", <<name, email, role, sub_account_ids>>, options,
         create_user(name, email, role, sub_account_ids, options, callback, opts))

Do_update_user ==
  \E id \in IdArgs, name \in Opt(Str("n1")), email \in Opt(Str("u@example.com")),
     role \in Opt(Str("admin")), sub_account_ids \in Opt(Arr(<<"acct1">>)),
     options \in OptArgs, callback \in Callbacks :
    Call("update_user", <<id, name, email, role, sub_account_ids>>, options,
         update_user(id, name, email, role, sub_account_ids, options, callback, opts))

Do_delete_user ==
  \E id \in IdArgs, options \in OptArgs, callback \in Callbacks :
    Call("delete_user", <<id>>, options, delete_user(id, options, callback, opts))

Do_create_user_group ==
  \E name \in Names, options \in OptArgs, callback \in Callbacks :
    Call("create_user_group", <<name>>, options,
         create_user_group(name, options, callback, opts))

Do_update_user_group ==
  \E id \in IdArgs, name \in Names, options \in OptArgs, callback \in Callbacks :
    Call("update_user_group", <<id, name>>, options,
         update_user_group(id, name, options, callback, opts))

Do_delete_user_group ==
  \E id \in IdArgs, options \in OptArgs, callback \in Callbacks :
    Call("delete_user_group", <<id>>, options,
         delete_user_group(id, options, callback, opts))

Do_add_user_to_group ==
  \E group_id \in IdArgs, user_id \in IdArgs, options \in OptArgs, callback \in Callbacks :
    Call("add_user_to_group", <<group_id, user_id>>, options,
         add_user_to_group(group_id, user_id, options, callback, opts))

Do_remove_user_from_group ==
  \E group_id \in IdArgs, user_id \in IdArgs, options \in OptArgs, callback \in Callbacks :
    Call("remove_user_from_group", <<group_id, user_id>>, options,
         remove_user_from_group(group_id, user_id, options, callback, opts))

Do_user_group ==
  \E id \in IdArgs, options \in OptArgs, callback \in Callbacks :
    Call("user_group", <<id>>, options, user_group(id, options, callback, opts))

Do_user_groups ==
  \E options \in OptArgs, callback \in Callbacks :
    Call("user_groups", <<>>, options, user_groups(options, callback, opts))

Do_user_group_users ==
  \E id \in IdArgs, options \in OptArgs, callback \in Callbacks :
    Call("user_group_users", <<id>>, options,
         user_group_users(id, options, callback, opts))

Do_access_keys ==
  \E id \in IdArgs, options \in OptArgs, callback \in Callbacks :
    Call("access_keys", <<id>>, options, access_keys(id, options, callback, opts))

Do_generate_access_key ==
  \E id \in IdArgs, options \in OptArgs, callback \in Callbacks :
    Call("generate_access_key", <<id>>, options,
         generate_access_key(id, options, callback, opts))

Do_update_access_key ==
  \E id \in IdArgs, api_key \in IdArgs, options \in OptArgs, callback \in Callbacks :
    Call("update_access_key", <<id, api_key>>, options,
         update_access_key(id, api_key, options, callback, opts))

Do_delete_access_key ==
  \E id \in IdArgs, api_key \in IdArgs, options \in OptArgs, callback \in Callbacks :
    Call("delete_access_key", <<id, api_key>>, options,
         delete_access_key(id, api_key, options, callback, opts))

Do_delete_access_key_by_name ==
  \E id \in IdArgs, options \in OptArgs, callback \in Callbacks :
    Call("delete_access_key_by_name", <<id>>, options,
         delete_access_key_by_name(id, options, callback, opts))

\* the call is over: nothing of it is kept but the caller's own object
Return ==
  /\ last # NoCall
  /\ last' = NoCall
  /\ UNCHANGED <<opts0, opts>>

Next ==
  \/ Do_sub_accounts
  \/ Do_sub_account
  \/ Do_create_sub_account
  \/ Do_delete_sub_account
  \/ Do_update_sub_account
  \/ Do_user
  \/ Do_users
  \/ Do_create_user
  \/ Do_update_user
  \/ Do_delete_user
  \/ Do_create_user_group
  \/ Do_update_user_group
  \/ Do_delete_user_group
  \/ Do_add_user_to_group
  \/ Do_remove_user_from_group
  \/ Do_user_group
  \/ Do_user_groups
  \/ Do_user_group_users
  \/ Do_access_keys
  \/ Do_generate_access_key
  \/ Do_update_access_key
  \/ Do_delete_access_key
  \/ Do_delete_access_key_by_name
  \/ Return

Spec == Init /\ [][Next]_vars

----------------------------------------------------------------------------
(* Properties *)

Forwarded(op) == last.op = op /\ last.outcome = "forwarded"

StructuredOps ==
  {"create_sub_account", "update_sub_account", "create_user", "update_user",
   "create_user_group", "update_user_group", "generate_access_key",
   "update_access_key"}

FilteredOps ==
  {"sub_accounts", "users", "access_keys", "generate_access_key", "update_access_key"}

ReadOnlyOps ==
  {"sub_accounts", "sub_account", "delete_sub_account", "user", "users",
   "delete_user", "user_group", "user_groups", "user_group_users",
   "delete_user_group", "add_user_to_group", "remove_user_from_group",
   "access_keys", "delete_access_key", "delete_access_key_by_name"}

PagingKeys == {"page_size", "page", "sort_by", "sort_order"}

\* C1: each of the eight structured create/update operations forwards an
\* options mapping whose content_type is "json", whatever it was given.
C1_StructuredOpsForwardJson ==
  (last.op \in StructuredOps /\ last.outcome = "forwarded")
    => /\ last.optKind = "mapping"
       /\ Get(last.options, "content_type") = Str("json")

\* C2: the params forwarded by sub_accounts, users, access_keys,
\* generate_access_key and update_access_key never hold a key whose value is
\* undefined.
C2_NoUndefinedParam ==
  (last.op \in FilteredOps /\ last.outcome = "forwarded")
    => \A k \in DOMAIN last.params : last.params[k] # Undefined

\* C3: delete_access_key_by_name forwards DELETE on
\* ["sub_accounts", sub_account_id, "access_keys"] with params {name: options.name}
\* when options.name is set, and with no key at all (neither name nor any
\* other unset field) when it is not.
C3_DeleteByNameParams ==
  Forwarded("delete_access_key_by_name")
    => /\ last.method = "DELETE"
       /\ last.uri = <<Str("sub_accounts"), last.args[1], Str("access_keys")>>
       /\ last.params = IF Get(last.optionsIn, "name") # Undefined
                        THEN [name |-> last.optionsIn["name"]]
                        ELSE EmptyMap

\* C4: create_sub_account forwards options whose content_type is "json"
\* whatever content_type the caller passed, and in which every other key the
\* caller supplied is present with its value unchanged.
C4_CreateSubAccountOptions ==
  Forwarded("create_sub_account")
    => /\ last.optKind = "mapping"
       /\ Get(last.options, "content_type") = Str("json")
       /\ \A k \in DOMAIN last.optionsIn \ {"content_type"} :
            k \in DOMAIN last.options /\ last.options[k] = last.optionsIn[k]

\* a create_sub_account call given content_type "form" and a timeout
C4_Witness ==
  /\ Forwarded("create_sub_account")
  /\ Get(last.optionsIn, "content_type") = Str("form")
  /\ Get(last.optionsIn, "timeout") = Num("60")

\* C5: the params of access_keys have exactly the keys among page_size, page,
\* sort_by, sort_order that are set in options, each with its value in
\* options, and no other key.
C5_AccessKeysParams ==
  Forwarded("access_keys")
    => /\ DOMAIN last.params =
            {k \in PagingKeys : Get(last.optionsIn, k) # Undefined}
       /\ \A k \in DOMAIN last.params : last.params[k] = last.optionsIn[k]

\* an access_keys call whose options hold page_size and name and nothing else
C5_Witness ==
  /\ Forwarded("access_keys")
  /\ DOMAIN last.optionsIn = {"page_size", "name"}
  /\ last.params = [page_size |-> Num("10")]

\* C6: add_user_to_group and remove_user_from_group forward the segments
\* ["user_groups", group_id, "users", user_id] in that order, with POST for
\* add and DELETE for remove, and empty params.
C6_MembershipUri ==
  (last.op \in {"add_user_to_group", "remove_user_from_group"}
     /\ last.outcome = "forwarded")
    => /\ last.uri = <<Str("user_groups"), last.args[1], Str("users"), last.args[2]>>
       /\ last.method = (IF last.op = "add_user_to_group" THEN "POST" ELSE "DELETE")
       /\ last.params = EmptyMap

\* an add_user_to_group call with two different identifiers
C6_Witness ==
  /\ Forwarded("add_user_to_group")
  /\ last.args = <<Str("acct2"), Str("acct1")>>

\* C7: no call signals an error of its own: it delegates once to the
\* transport and returns what the transport returns.
C7_NoErrorOfItsOwn ==
  last.op # "none"
    => /\ last.outcome = "forwarded"
       /\ last.delegated = 1
       /\ last.ret = last.transport

Descriptor(r) == <<r.outcome, r.method, r.uri, r.params, r.optKind, r.options>>

\* C8: a call forwards the same descriptor whatever calls were made before
\* it: the descriptor that a call with given arguments forwards is the same
\* before and after any other call, also for calls given the caller's
\* options object.
C8_CallsIndependent ==
  [][\A id \in Ids, options \in OptArgs :
       /\ Descriptor(sub_account(id, options, Undefined, opts))
            = Descriptor(sub_account(id, options, Undefined, opts'))
       /\ Descriptor(access_keys(id, options, Undefined, opts))
            = Descriptor(access_keys(id, options, Undefined, opts'))
       /\ Descriptor(update_sub_account(id, Str("n1"), Undefined, Undefined,
                                        Undefined, options, Undefined, opts))
            = Descriptor(update_sub_account(id, Str("n1"), Undefined, Undefined,
                                            Undefined, options, Undefined, opts'))
    ]_vars

\* C9: sub_accounts forwards GET on ["sub_accounts"] with params
\* {enabled, ids, prefix} as given, ids being the empty list when omitted.
C9_SubAccountsDescriptor ==
  Forwarded("sub_accounts")
    => /\ last.method = "GET"
       /\ last.uri = <<Str("sub_accounts")>>
       /\ last.params = [enabled |-> last.args[1],
                         ids     |-> IF last.args[2] = Undefined
                                     THEN Arr(<<>>) ELSE last.args[2],
                         prefix  |-> last.args[3]]

\* a sub_accounts call with enabled and prefix given and ids omitted
C9_Witness ==
  /\ Forwarded("sub_accounts")
  /\ last.args = <<Bool("true"), Undefined, Str("foo")>>
  /\ last.params["ids"] = Arr(<<>>)

SameButContentType(a, b) ==
  \A k \in (DOMAIN a \cup DOMAIN b) \ {"content_type"} :
    k \in DOMAIN a /\ k \in DOMAIN b /\ a[k] = b[k]

\* C10: a call changes the caller's options object in its content_type key
\* at most; the get, list, delete and membership operations leave it as it
\* was and forward it as it is; and whatever calls were made, every key but
\* content_type has the value the caller gave it.
C10_OptionsFrame ==
  [][/\ SameButContentType(opts, opts')
     /\ SameButContentType(opts0, opts')
     /\ last'.op \in ReadOnlyOps
          => /\ opts' = opts
             /\ (last'.outcome = "forwarded" /\ last'.optArg = "caller")
                  => last'.optRef = "caller" /\ last'.options = opts
    ]_vars

\* a delete_access_key_by_name call given the caller's object after an
\* earlier call has annotated it
C10_Witness ==
  /\ Forwarded("delete_access_key_by_name")
  /\ last.optArg = "caller"
  /\ opts # opts0
  /\ Get(opts, "name") = Str("key1")

====
